---- MODULE Spec2Model ----
(***************************************************************************)
(* Adaptive failover routing of openrouterfree: the per-model statistics   *)
(* tracker (models.py, ModelStats), its best-model selection, and the      *)
(* retry / model-switching loop of the client (client.py).                 *)
(*                                                                         *)
(* Specifications:                                                         *)
(*   SpecTracker  ModelStats driven directly through its four methods      *)
(*   Spec         OpenRouterFreeOpenAIClient.chat_completions_create       *)
(*   FairSpec     Spec, with the client loop always taking its next step   *)
(*   SpecProxy    ProxyHandler.handle_chat_completion, request by request  *)
(*   SpecRace     two threads inside ModelStats' methods at the same time  *)
(***************************************************************************)
EXTENDS Integers, Sequences, FiniteSets, TLC

\* ---------------------------------------------------------------- bounds
\* largest max_retries / error_threshold drawn at construction
MaxThreshold == 2
\* the clock advances in steps of TickLen seconds, at most MaxTicks times
TickLen == 300
MaxTicks == 2
\* SpecTracker: record_error is called on a model until it has MaxErrors
\* errors, record_success until it has MaxSuccesses successes
MaxErrors == 2
MaxSuccesses == 1
\* chat_completions_create calls on one client (Spec)
MaxCalls == 2
\* inbound chat-completion requests the proxy serves (SpecProxy)
MaxRequests == 2

\* ------------------------------------------------------------- constants
\* models.py:41  "more than 5 minutes ago"
DecayWindow == 300
\* models.py:21  'last_error': None  (falsy, like the timestamp 0)
None == 0

\* model ids of the catalogue, and the value of "no model" (Python None)
Models == {"A", "B", "C", "D"}
\* SpecTracker records observations on these; the others stay never-seen
Observed == {"A", "B"}
NoModel == "none"

\* the clock of time.time(): starts positive
StartTime == 1

VARIABLES
    pool,             \* the candidate list: the catalogue, in its order
    stats,            \* ModelStats.stats: model_id -> record
    error_threshold,  \* ModelStats.error_threshold
    now,              \* time.time()
    lastOp,           \* the query made last on ModelStats (is_model_available,
                      \* get_best_model) and its result, "none" once the state moved on
    hist,             \* per model: whether its errors were reset by decay since it had
                      \* no record, the record_error calls made on it since then
                      \* (since the last decay reset, once there was one), whether
                      \* an error or a success was recorded on it since the records
                      \* were last dropped, and whether one was ever recorded on it
    max_retries,      \* client: self.max_retries
    best_model,       \* client: self.best_model (its id)
    upstream,         \* per model: how the remote API answers a call for it
    pc,               \* client: where chat_completions_create stands
    target,           \* client: model_id of chat_completions_create, which make_api_call sends
    model_id,         \* client: model_id of _retry_with_exponential_backoff
    attempt,          \* client: the index of the for loop
    last_exception,   \* client: last_exception
    outcome,          \* client: what the call gave its caller
    calls,            \* client: chat_completions_create calls made
    trace,            \* client: what happened during the call under way
    proxy,            \* proxy: the locals of handle_chat_completion, the reply
                      \* written to the caller and the upstream exchange handled last
    race              \* the threads inside a method of ModelStats and their locals

trackerObs == <<lastOp, hist>>
clientVars == <<max_retries, best_model, upstream, pc, target, model_id, attempt,
                last_exception, outcome, calls, trace>>
vars == <<pool, stats, error_threshold, now, lastOp, hist, max_retries, best_model,
          upstream, pc, target, model_id, attempt, last_exception, outcome, calls, trace,
          proxy, race>>

\* ------------------------------------------------------------ ModelStats

\* models.py:21/29  the record created on first observation
NewRecord == [errors |-> 0, successes |-> 0, last_error |-> None]

EmptyStats == [m \in {} |-> NewRecord]

\* models.py:20-21, 28-29  create the record if absent
Touch(st, m) == IF m \in DOMAIN st THEN st ELSE st @@ (m :> NewRecord)

\* models.py:18-24
record_error(st, m, t) ==
    [Touch(st, m) EXCEPT ![m].errors = @ + 1, ![m].last_error = t]

\* mutant of record_success: no record is created for a model never seen
record_success_known(st, m) ==
    IF m \in DOMAIN st THEN [st EXCEPT ![m].successes = @ + 1] ELSE st

\* mutant of record_success: a success forgives one recorded error
record_success_forgiving(st, m) ==
    [Touch(st, m) EXCEPT ![m].successes = @ + 1,
                         ![m].errors = IF @ > 0 THEN @ - 1 ELSE 0]

\* models.py:26-31
record_success(st, m) ==
    [Touch(st, m) EXCEPT ![m].successes = @ + 1]

\* models.py:41  stats['last_error'] and (time.time() - stats['last_error']) > 300
DecayElapsed(last_error, t) ==
    last_error # None /\ (t - last_error) > DecayWindow

\* mutant of UnderThreshold: the threshold itself still counts as available
UnderThreshold_inclusive(errors, T) == errors <= T

\* models.py:45  stats['errors'] < self.error_threshold
UnderThreshold(errors, T) == errors < T

\* models.py:33-45  the value returned
is_model_available_ret(st, m, t, T) ==
    IF m \notin DOMAIN st THEN TRUE
    ELSE IF DecayElapsed(st[m].last_error, t) THEN TRUE
    ELSE UnderThreshold(st[m].errors, T)

\* mutant of is_model_available_stats: the decay reset of line 42 is left out
is_model_available_stats_noreset(st, m, t) == st

\* mutant of is_model_available_stats: a model without record gets one
is_model_available_stats_touch(st, m, t) ==
    IF m \in DOMAIN st /\ DecayElapsed(st[m].last_error, t)
    THEN [st EXCEPT ![m].errors = 0]
    ELSE Touch(st, m)

\* mutant of is_model_available_stats: the errors are reset whenever the model
\* has had an error, however recent
is_model_available_stats_always(st, m, t) ==
    IF m \in DOMAIN st /\ st[m].last_error # None
    THEN [st EXCEPT ![m].errors = 0]
    ELSE st

\* mutant of is_model_available_stats: the decay reset drops the record
is_model_available_stats_drop(st, m, t) ==
    IF m \in DOMAIN st /\ DecayElapsed(st[m].last_error, t)
    THEN [x \in DOMAIN st \ {m} |-> st[x]]
    ELSE st

\* models.py:33-45  the statistics it leaves behind (line 42: the decay reset)
is_model_available_stats(st, m, t) ==
    IF m \in DOMAIN st /\ DecayElapsed(st[m].last_error, t)
    THEN [st EXCEPT ![m].errors = 0]
    ELSE st

\* mutant of FilterAvailable: every candidate is kept
FilterAvailable_all(st, models, t, T) == [available |-> models, stats |-> st]

\* models.py:49  [m for m in models if self.is_model_available(m['id'])]:
\* the candidates kept, in order, and the statistics after every decay reset
RECURSIVE FilterAvailable(_, _, _, _)
FilterAvailable(st, models, t, T) ==
    IF models = <<>> THEN [available |-> <<>>, stats |-> st]
    ELSE LET m == Head(models)
             rest == FilterAvailable(is_model_available_stats(st, m, t), Tail(models), t, T)
         IN  [available |-> IF is_model_available_ret(st, m, t, T)
                            THEN <<m>> \o rest.available
                            ELSE rest.available,
              stats |-> rest.stats]

\* mutant of success_rate: a model without record scores 0 instead of 1.0
success_rate_unseen0(st, m) ==
    IF m \notin DOMAIN st THEN <<0, 1>>
    ELSE IF st[m].successes + st[m].errors = 0 THEN <<1, 1>>
    ELSE <<st[m].successes, st[m].successes + st[m].errors>>

\* models.py:57-67  successes / total as the fraction <<numerator, denominator>>;
\* 1.0 for a model without record or without observations
success_rate(st, m) ==
    IF m \notin DOMAIN st THEN <<1, 1>>
    ELSE IF st[m].successes + st[m].errors = 0 THEN <<1, 1>>
    ELSE <<st[m].successes, st[m].successes + st[m].errors>>

\* the comparison max() makes between two keys: a > b, on fractions with
\* positive denominators
RateGreater(a, b) == a[1] * b[2] > b[1] * a[2]

\* mutant of MaxBy: a later candidate with an equal key replaces the best so far
RECURSIVE MaxBy_last(_, _, _)
MaxBy_last(st, best, rest) ==
    IF rest = <<>> THEN best
    ELSE MaxBy_last(st,
                    IF ~RateGreater(success_rate(st, best), success_rate(st, Head(rest)))
                    THEN Head(rest) ELSE best,
                    Tail(rest))

\* models.py:69  max(available_models, key=success_rate): a later candidate
\* replaces the best so far only when its key is strictly greater
RECURSIVE MaxBy(_, _, _)
MaxBy(st, best, rest) ==
    IF rest = <<>> THEN best
    ELSE MaxBy(st,
               IF RateGreater(success_rate(st, Head(rest)), success_rate(st, best))
               THEN Head(rest) ELSE best,
               Tail(rest))

\* mutant of get_best_model: the records are kept when no candidate is available
get_best_model_keep(st, models, t, T) ==
    LET f == FilterAvailable(st, models, t, T)
    IN  IF f.available = <<>>
        THEN [ret |-> IF models # <<>> THEN models[1] ELSE NoModel,
              stats |-> f.stats]
        ELSE [ret |-> MaxBy(f.stats, Head(f.available), Tail(f.available)),
              stats |-> f.stats]

\* models.py:47-69  the model returned and the statistics left behind
get_best_model(st, models, t, T) ==
    LET f == FilterAvailable(st, models, t, T)
    IN  IF f.available = <<>>
        THEN [ret |-> IF models # <<>> THEN models[1] ELSE NoModel,
              stats |-> EmptyStats]
        ELSE [ret |-> MaxBy(f.stats, Head(f.available), Tail(f.available)),
              stats |-> f.stats]

\* ------------------------------------------- SpecTracker: ModelStats alone

\* the exceptions an upstream call raises; NoError is last_exception = None
Errors == {"timeout", "status"}
NoError == "no error"
\* client.py:212  Exception("All retry attempts failed")
GenericError == "All retry attempts failed"

\* what a call gave its caller: the answer to the request for `model`, which
\* names `effective` as the model that served it, or the exception raised
NoOutcome == [kind |-> "none", model |-> NoModel, effective |-> NoModel,
              error |-> NoError]

\* the call under way: the models the loop attempted, whether func() was
\* called, the exceptions it raised and the latest of them, the models whose
\* for loop ended, the latest of them and how many attempts that loop made;
\* the model the loop held at the latest call of func(), what was recorded in
\* the statistics after it, and the time slept after it (milliseconds)
NoTrace == [tried |-> {}, attempts |-> 0, failures |-> {}, lastFailure |-> NoError,
            gone |-> {}, left |-> NoModel, leftAfter |-> 0,
            current |-> NoModel, wrote |-> {}, wait |-> 0]

\* candidate lists: every ordering of every subset of the models
Pools == {p \in UNION {[1..n -> Models] : n \in 0..Cardinality(Models)} :
            \A i, j \in DOMAIN p : i # j => p[i] # p[j]}

\* the position of m in the list p, 0 when it is not in it
IndexOf(p, m) == IF \E i \in DOMAIN p : p[i] = m
                 THEN CHOOSE i \in DOMAIN p : p[i] = m ELSE 0

\* the lists SpecTracker starts from: A and B are interchangeable, so B is
\* listed only together with A and after it
TrackerPools ==
    {p \in Pools : /\ IndexOf(p, "D") = 0
                   /\ (IndexOf(p, "B") = 0
                       \/ (0 < IndexOf(p, "A") /\ IndexOf(p, "A") < IndexOf(p, "B")))}

Range(f) == {f[i] : i \in DOMAIN f}

\* more than the decay window has passed since the last error recorded on m
WindowElapsed(st, m, t) ==
    /\ m \in DOMAIN st
    /\ st[m].last_error # None
    /\ t - st[m].last_error > DecayWindow

\* the models of ms whose decay window has elapsed when the call is made
DecayedBy(st, ms, t) == {m \in ms : WindowElapsed(st, m, t)}

\* the counters of a model, 0 while it has no record
ErrorsOf(st, m) == IF m \in DOMAIN st THEN st[m].errors ELSE 0
SuccessesOf(st, m) == IF m \in DOMAIN st THEN st[m].successes ELSE 0

NoOp == [op |-> "none", m |-> NoModel, avail |-> TRUE, best |-> NoModel,
         lockout |-> FALSE]

NoHist == [decayed |-> FALSE, errCalls |-> 0, live |-> FALSE, ever |-> FALSE]

\* hist after a call that reset the errors of the models d by decay and, when
\* cleared, dropped every record
HistAfter(d, cleared) ==
    [x \in Models |-> IF cleared THEN [NoHist EXCEPT !.ever = hist[x].ever]
                      ELSE IF x \in d THEN [hist[x] EXCEPT !.decayed = TRUE, !.errCalls = 0]
                      ELSE hist[x]]

\* a model the tracker holds ejected at time t: at or over the threshold, its
\* last error no more than the decay window ago
Ejected(st, m, t, T) ==
    /\ m \in DOMAIN st
    /\ st[m].errors >= T
    /\ ~WindowElapsed(st, m, t)

\* an upstream response: its status code and its body
NoResponse == [status |-> 0, body |-> ""]

\* the proxy before its first request
NoProxy == [st |-> "idle", requested |-> NoModel, request_model |-> NoModel,
            best_model |-> NoModel, pick |-> NoModel, attempt |-> 0, max_retries |-> 0,
            sent |-> 0, served |-> 0, reply |-> NoResponse,
            sentTo |-> NoModel, got |-> "none", response |-> NoResponse,
            lastResponse |-> NoResponse,
            dErr |-> [m \in Models |-> 0], dOk |-> [m \in Models |-> 0],
            same |-> TRUE, response_headers |-> <<>>, sent_headers |-> <<>>]

\* no thread is inside ModelStats
NoRace == [phase |-> "none", base |-> EmptyStats, thr |-> <<>>,
           heap |-> <<>>, cur |-> [m \in {} |-> 0], cut |-> {}]

\* no client is constructed
NoClient ==
    /\ max_retries = 0
    /\ best_model = NoModel
    /\ upstream = [m \in Models |-> "flaky"]
    /\ pc = "idle"
    /\ target = NoModel
    /\ model_id = NoModel
    /\ attempt = 0
    /\ last_exception = NoError
    /\ outcome = NoOutcome
    /\ calls = 0
    /\ trace = NoTrace

TrackerInit ==
    /\ pool \in TrackerPools
    /\ stats = EmptyStats
    /\ error_threshold \in 0..MaxThreshold
    /\ now = StartTime
    /\ lastOp = NoOp
    /\ hist = [m \in Models |-> NoHist]
    /\ NoClient
    /\ proxy = NoProxy
    /\ race = NoRace

\* stats.record_error(m)
RecordError(m) ==
    /\ ErrorsOf(stats, m) < MaxErrors
    /\ stats' = record_error(stats, m, now)
    /\ lastOp' = NoOp
    /\ hist' = [hist EXCEPT ![m].errCalls = @ + 1, ![m].live = TRUE, ![m].ever = TRUE]
    /\ UNCHANGED <<pool, error_threshold, now, clientVars, proxy, race>>

\* stats.record_success(m)
RecordSuccess(m) ==
    /\ SuccessesOf(stats, m) < MaxSuccesses
    /\ stats' = record_success(stats, m)
    /\ lastOp' = NoOp
    /\ hist' = [hist EXCEPT ![m].live = TRUE, ![m].ever = TRUE]
    /\ UNCHANGED <<pool, error_threshold, now, clientVars, proxy, race>>

\* stats.is_model_available(m)
IsModelAvailable(m) ==
    /\ stats' = is_model_available_stats(stats, m, now)
    /\ lastOp' = [NoOp EXCEPT !.op = "is_model_available", !.m = m,
                    !.avail = is_model_available_ret(stats, m, now, error_threshold)]
    /\ hist' = HistAfter(DecayedBy(stats, {m}, now), FALSE)
    /\ UNCHANGED <<pool, error_threshold, now, clientVars, proxy, race>>

\* stats.get_best_model(pool)
GetBestModel ==
    LET r == get_best_model(stats, pool, now, error_threshold)
    IN  /\ stats' = r.stats
        /\ lastOp' = [NoOp EXCEPT !.op = "get_best_model", !.best = r.ret,
                        !.lockout = \A i \in DOMAIN pool :
                                        Ejected(stats, pool[i], now, error_threshold)]
        /\ hist' = HistAfter(DecayedBy(stats, Range(pool), now), r.stats = EmptyStats)
        /\ UNCHANGED <<pool, error_threshold, now, clientVars, proxy, race>>

\* time passes
Tick ==
    /\ now < StartTime + MaxTicks * TickLen
    /\ now' = now + TickLen
    /\ lastOp' = NoOp
    /\ UNCHANGED <<pool, stats, error_threshold, hist, clientVars, proxy, race>>

TrackerNext ==
    \/ \E m \in Observed : RecordError(m)
    \/ \E m \in Observed : RecordSuccess(m)
    \/ \E m \in Observed : IsModelAvailable(m)
    \/ GetBestModel
    \/ Tick

SpecTracker == TrackerInit /\ [][TrackerNext]_vars

\* --------------------------- Spec: OpenRouterFreeOpenAIClient, one client

\* the catalogues a client is built on; the ids are interchangeable, so one
\* list of each length
ClientPools == {<<"A">>, <<"A", "B">>, <<"A", "B", "C">>}

\* how the remote API behaves: a "fail" model fails every call sent to it, an
\* "ok" model answers every call, a "flaky" model does either
Scenarios ==
    { [m \in Models |-> "flaky"],
      [m \in Models |-> "fail"],
      [m \in Models |-> IF m = "A" THEN "fail" ELSE "ok"] }

\* client.py:87-100  the catalogue is fetched and handed to get_best_model; an
\* empty catalogue makes get_filtered_models raise, which gives None
_get_best_free_model_with_stats(st, t, T) ==
    IF pool = <<>> THEN [ret |-> NoModel, stats |-> st]
    ELSE get_best_model(st, pool, t, T)

\* client.py:139, 188, 200  not new_model or new_model['id'] == model_id
NoAlternative(new_model, cur) == new_model = NoModel \/ new_model = cur

\* mutant of Remember: the first exception of the call is kept
Remember_first(prev, e) == IF prev = NoError THEN e ELSE prev

\* client.py:159  last_exception = e
Remember(prev, e) == e

\* client.py:208-212  raise last_exception, or the generic exception
RaiseLast(exc) ==
    [kind |-> "raised", model |-> NoModel, effective |-> NoModel,
     error |-> IF exc # NoError THEN exc ELSE GenericError]

\* client.py:27  base_retry_delay = 1.0 seconds, in milliseconds
base_retry_delay == 1000

\* client.py:176  random.uniform(0.1, 0.3), in percent
JitterPercents == {10, 30}

\* mutant of BackoffDelay: the attempt index counted from 1
BackoffDelay_onebased(base, k) == base * 2^(k + 1)

\* client.py:175  delay = self.base_retry_delay * (2 ** attempt)
BackoffDelay(base, k) == base * 2^k

\* client.py:176-177  jitter = random.uniform(0.1, 0.3) * delay;
\* total_delay = delay + jitter
TotalDelay(base, k, u) ==
    BackoffDelay(base, k) + (u * BackoffDelay(base, k)) \div 100

\* what a call of record_error / record_success changed in the counters
Writes(before, after) ==
    {<<"error", m, ErrorsOf(after, m) - ErrorsOf(before, m)>> :
        m \in {x \in Models : ErrorsOf(after, x) # ErrorsOf(before, x)}}
    \cup
    {<<"success", m, SuccessesOf(after, m) - SuccessesOf(before, m)>> :
        m \in {x \in Models : SuccessesOf(after, x) # SuccessesOf(before, x)}}

\* client.py:45-68  the state __init__ leaves: the threshold is max_retries,
\* the best model is picked on empty statistics
ClientInit ==
    /\ pool \in ClientPools
    /\ max_retries \in 0..MaxThreshold
    /\ error_threshold = max_retries
    /\ stats = EmptyStats
    /\ now = StartTime
    /\ best_model = get_best_model(EmptyStats, pool, StartTime, max_retries).ret
    /\ upstream \in Scenarios
    /\ pc = "idle"
    /\ target = NoModel
    /\ model_id = NoModel
    /\ attempt = 0
    /\ last_exception = NoError
    /\ outcome = NoOutcome
    /\ calls = 0
    /\ trace = NoTrace
    /\ lastOp = NoOp
    /\ hist = [m \in Models |-> NoHist]
    /\ proxy = NoProxy
    /\ race = NoRace

\* client.py:228-255 and 124  chat_completions_create: model_id is read once and
\* closed over by make_api_call; the retry loop starts without exception
Call ==
    /\ pc \in {"idle", "returned", "raised"}
    /\ calls < MaxCalls
    /\ calls' = calls + 1
    /\ trace' = NoTrace
    /\ last_exception' = NoError
    /\ IF best_model = NoModel
       THEN /\ pc' = "raised"
            /\ outcome' = [kind |-> "raised", model |-> NoModel,
                           effective |-> NoModel,
                           error |-> "No valid best model available"]
            /\ UNCHANGED target
       ELSE /\ pc' = "loop"
            /\ target' = best_model
            /\ outcome' = NoOutcome
    /\ UNCHANGED <<pool, stats, error_threshold, now, trackerObs, proxy, race, max_retries,
                   best_model, upstream, model_id, attempt>>

\* client.py:127-148  the head of the while loop, up to the first attempt
LoopHead ==
    /\ pc = "loop"
    /\ model_id' = best_model
    /\ LET ok == is_model_available_ret(stats, best_model, now, error_threshold)
           st1 == is_model_available_stats(stats, best_model, now)
           sel == _get_best_free_model_with_stats(st1, now, error_threshold)
       IN  IF ok
           THEN /\ stats' = st1
                /\ attempt' = 0
                /\ pc' = "attempt"
                /\ UNCHANGED <<best_model, outcome>>
           ELSE /\ stats' = sel.stats
                /\ IF NoAlternative(sel.ret, best_model)
                   THEN /\ pc' = "raised"
                        /\ outcome' = RaiseLast(last_exception)
                        /\ UNCHANGED best_model
                   ELSE /\ pc' = "loop"
                        /\ best_model' = sel.ret
                        /\ UNCHANGED outcome
                /\ UNCHANGED attempt
    /\ UNCHANGED <<pool, error_threshold, now, trackerObs, proxy, race, max_retries, upstream,
                   target, last_exception, calls, trace>>

\* client.py:149-156  func() answers, the answer naming the model that served
\* the request: the success goes to model_id
AttemptOk ==
    /\ pc = "attempt"
    /\ upstream[target] # "fail"
    /\ stats' = record_success(stats, model_id)
    /\ pc' = "returned"
    /\ \E eff \in Range(pool) :
          outcome' = [kind |-> "returned", model |-> target, effective |-> eff,
                      error |-> NoError]
    /\ trace' = [trace EXCEPT !.tried = @ \cup {model_id}, !.attempts = 1,
                              !.current = model_id,
                              !.wrote = Writes(stats, record_success(stats, model_id))]
    /\ UNCHANGED <<pool, error_threshold, now, trackerObs, proxy, race, max_retries, best_model,
                   upstream, target, model_id, attempt, last_exception, calls>>

\* client.py:158-206  func() raises e: the error goes to model_id; then the
\* next attempt after the backoff, or the end of the for loop and the switch
AttemptFail(e) ==
    /\ pc = "attempt"
    /\ upstream[target] # "ok"
    /\ last_exception' = Remember(last_exception, e)
    /\ LET st1 == record_error(stats, model_id, now)
           ok == is_model_available_ret(st1, model_id, now, error_threshold)
           st2 == is_model_available_stats(st1, model_id, now)
           \* line 184, after the for loop
           st3 == is_model_available_stats(st2, model_id, now)
           sel == _get_best_free_model_with_stats(st3, now, error_threshold)
           seen == [trace EXCEPT !.tried = @ \cup {model_id}, !.attempts = 1,
                                 !.failures = @ \cup {e}, !.lastFailure = e,
                                 !.current = model_id,
                                 !.wrote = Writes(stats, st1),
                                 !.wait = 0]
       IN  IF ok /\ attempt < max_retries
           THEN /\ stats' = st2
                /\ attempt' = attempt + 1
                /\ pc' = "attempt"
                \* lines 174-181: the backoff
                /\ \E u \in JitterPercents :
                      trace' = [seen EXCEPT
                                  !.wait = TotalDelay(base_retry_delay, attempt, u)]
                /\ UNCHANGED <<best_model, outcome>>
           ELSE /\ stats' = sel.stats
                /\ trace' = [seen EXCEPT !.gone = @ \cup {model_id}, !.left = model_id,
                                          !.leftAfter = attempt + 1]
                /\ IF NoAlternative(sel.ret, model_id)
                   THEN /\ pc' = "raised"
                        /\ outcome' = RaiseLast(last_exception')
                        /\ UNCHANGED best_model
                   ELSE /\ pc' = "loop"
                        /\ best_model' = sel.ret
                        /\ UNCHANGED outcome
                /\ UNCHANGED attempt
    /\ UNCHANGED <<pool, error_threshold, now, trackerObs, proxy, race, max_retries, upstream,
                   target, model_id, calls>>

\* the steps of a call under way
ClientStep == LoopHead \/ AttemptOk \/ \E e \in Errors : AttemptFail(e)

ClientNext ==
    \/ Call
    \/ LoopHead
    \/ AttemptOk
    \/ \E e \in Errors : AttemptFail(e)
    \/ Tick

Spec == ClientInit /\ [][ClientNext]_vars

\* the loop of a call under way goes on: func() returns or raises, and the
\* code between two calls of func() runs to its end
FairSpec == Spec /\ WF_vars(ClientStep)

\* ---------------------- SpecProxy: ProxyHandler.handle_chat_completion

\* proxy.py:107  min(3, len(self.models_list))
ProxyCeiling == 3

Min(a, b) == IF a < b THEN a ELSE b

\* the lists the proxy is started on
ProxyPools == {<<>>, <<"A">>, <<"A", "B">>, <<"A", "B", "C", "D">>}

\* what the remote API answers: a status code and a body
Statuses == {200, 201, 400, 429, 500}
Bodies == {"Rate limit exceeded", "invalid request"}
Responses == [status : Statuses, body : Bodies]

\* proxy.py:124  'rate' in response.text.lower()
HasRateText(body) == body \in {"Rate limit exceeded"}

\* an inbound POST /v1/chat/completions: the model it names, whether it
\* carries a Bearer token, whether its body is JSON
Inbound == [model : {"B", "gpt-4"}, auth : BOOLEAN, json : BOOLEAN]

\* proxy.py:180  send_error(502, "Bad Gateway: ...")
BadGateway == [status |-> 502, body |-> "Bad Gateway"]

\* mutant of is_rate_limited: every status >= 400 counts as rate-limited
is_rate_limited_any(r) == r.status >= 400

\* proxy.py:124  the rate-limit check
is_rate_limited(r) ==
    IF r.status = 429 THEN TRUE
    ELSE r.status >= 400 /\ HasRateText(r.body)

\* mutant of RetryCeiling: one attempt per model of the list
RetryCeiling_pool(n) == n

\* proxy.py:107  max_retries
RetryCeiling(n) == Min(ProxyCeiling, n)

\* mutant of Substitute: the model of the inbound request is kept
Substitute_keep(requested, best) == requested

\* proxy.py:102, 134, 177  request_data['model'] = best_model['id']
Substitute(requested, best) == best

\* mutant of OnRateLimited: the error goes unrecorded on the final attempt
OnRateLimited_notlast(st, m, t, att, max) ==
    IF att < max - 1 THEN record_error(st, m, t) ELSE st

\* proxy.py:126-127  the statistics after a rate-limited response
OnRateLimited(st, m, t, att, max) == record_error(st, m, t)

\* proxy.py:168-171  the statistics after a transport failure
OnTransportError(st, m, t) ==
    IF m # NoModel THEN record_error(st, m, t) ELSE st

\* mutant of OnForward: every 2xx status counts as a success
OnForward_2xx(st, m, r) ==
    IF r.status >= 200 /\ r.status <= 299 THEN record_success(st, m) ELSE st

\* mutant of OnForward: a status that is not 200 counts as an error
OnForward_err(st, m, r) ==
    IF r.status = 200 THEN record_success(st, m) ELSE record_error(st, m, StartTime)

\* proxy.py:147-152  the statistics after any other response
OnForward(st, m, r) ==
    IF r.status = 200 THEN record_success(st, m) ELSE st

\* proxy.py:130-136, 173-178  "try next model": whether the loop continues,
\* with which model, and the statistics get_best_model leaves
NextModel(st, att, max, cur, t, T) ==
    IF att < max - 1
    THEN LET sel == get_best_model(st, pool, t, T)
         IN  [continue |-> sel.ret # NoModel, best |-> sel.ret, asked |-> TRUE,
              stats |-> sel.stats]
    ELSE [continue |-> FALSE, best |-> cur, asked |-> FALSE, stats |-> st]

\* mutant of Forward: the proxy answers 502 for every upstream error status
Forward_502(r) == IF r.status >= 400 THEN [r EXCEPT !.status = 502] ELSE r

\* proxy.py:155-164  the status and the body forwarded to the caller
Forward(r) == [status |-> r.status, body |-> r.body]

\* mutant of ForwardLast: the answer of the proxy's own send_error
ForwardLast_502(r) == BadGateway

\* proxy.py:139-143  the rate-limited response forwarded when no retry is left
ForwardLast(r) == [status |-> r.status, body |-> r.body]

\* response.headers of the remote API: <<name, value>> pairs, at most one per
\* name whatever its case; Content-Length counts the bytes on the wire, which
\* are not the bytes of response.content when the body came compressed
HeaderLists ==
    { << <<"Content-Type", "application/json">>, <<"Content-Encoding", "gzip">>,
         <<"Content-Length", "7">>, <<"Connection", "keep-alive">>,
         <<"X-Request-Id", "r1">> >>,
      << <<"content-type", "application/json">>, <<"Transfer-Encoding", "chunked">>,
         <<"x-ratelimit-remaining", "0">> >> }

\* str.lower() on the header names in use
Lower(name) ==
    CASE name = "Content-Type" -> "content-type"
      [] name = "Content-Encoding" -> "content-encoding"
      [] name = "Content-Length" -> "content-length"
      [] name = "Connection" -> "connection"
      [] name = "Transfer-Encoding" -> "transfer-encoding"
      [] name = "X-Request-Id" -> "x-request-id"
      [] name = "Server" -> "server"
      [] name = "Date" -> "date"
      [] OTHER -> name

\* proxy.py:159  the names that are not forwarded
SkippedHeaders == {"transfer-encoding", "connection", "content-encoding", "content-length"}

\* mutant of Skipped: the name is compared as it came
Skipped_cased(name) == name \in SkippedHeaders

\* proxy.py:159  header.lower() not in [...]
Skipped(name) == Lower(name) \in SkippedHeaders

\* proxy.py:156-160  the upstream headers that pass, in their order
RECURSIVE Kept(_)
Kept(h) ==
    IF h = <<>> THEN <<>>
    ELSE IF Skipped(Head(h)[1]) THEN Kept(Tail(h))
    ELSE <<Head(h)>> \o Kept(Tail(h))

\* proxy.py:141, 162  str(len(response.content))
ContentLength(body) == <<"Content-Length", ToString(Len(body))>>

\* proxy.py:139, 155  send_response(code) of http.server writes the status
\* line, then a Server and a Date header
StatusHeaders == << <<"Server", "BaseHTTP">>, <<"Date", "today">> >>

\* proxy.py:155-163  the headers of a forwarded response
ForwardHeaders(h, body) == StatusHeaders \o Kept(h) \o <<ContentLength(body)>>

\* proxy.py:139-142  the headers of the last rate-limited response
ForwardLastHeaders(body) ==
    StatusHeaders \o << <<"Content-Type", "application/json">>, ContentLength(body) >>

\* the exchange just handled: the model the request carried, what came back,
\* and what the handler recorded (the counters after its record_error /
\* record_success minus the counters before)
Handled(px, kind, r, before, after) ==
    [px EXCEPT !.sentTo = px.request_model, !.got = kind, !.response = r,
               !.lastResponse = IF kind = "response" THEN r ELSE @,
               !.dErr = [m \in Models |-> ErrorsOf(after, m) - ErrorsOf(before, m)],
               !.dOk = [m \in Models |-> SuccessesOf(after, m) - SuccessesOf(before, m)],
               !.same = (after = before)]

\* proxy.py:231-233  start_proxy_server: the list and fresh statistics
ProxyInit ==
    /\ pool \in ProxyPools
    /\ stats = EmptyStats
    /\ error_threshold \in 0..MaxThreshold
    /\ now = StartTime
    /\ lastOp = NoOp
    /\ hist = [m \in Models |-> NoHist]
    /\ NoClient
    /\ proxy = NoProxy
    /\ race = NoRace

\* proxy.py:76-121  a request comes in: body, Authorization header, the best
\* model, the override of the request's model, and the first upstream request
Receive(inb) ==
    /\ proxy.st \in {"idle", "replied"}
    /\ proxy.served < MaxRequests
    /\ LET sel == get_best_model(stats, pool, now, error_threshold)
           fresh == [NoProxy EXCEPT !.served = proxy.served + 1,
                                    !.requested = inb.model,
                                    !.request_model = inb.model]
           refuse(code, text) ==
               [fresh EXCEPT !.st = "replied",
                             !.reply = [status |-> code, body |-> text]]
       IN  IF ~inb.json
           THEN /\ proxy' = refuse(400, "Invalid JSON in request body")
                /\ UNCHANGED stats
           ELSE IF ~inb.auth
           THEN /\ proxy' = refuse(401, "Missing or invalid Authorization header")
                /\ UNCHANGED stats
           ELSE /\ stats' = sel.stats
                /\ proxy' = IF sel.ret = NoModel
                            THEN refuse(503, "No models available")
                            ELSE [fresh EXCEPT
                                    !.st = "sending",
                                    !.best_model = sel.ret,
                                    !.pick = sel.ret,
                                    !.request_model = Substitute(@, sel.ret),
                                    !.max_retries = RetryCeiling(Len(pool)),
                                    !.sent = 1]
    /\ UNCHANGED <<pool, error_threshold, now, trackerObs, clientVars, race>>

\* the retry of lines 129-136 / 173-178, or the reply when there is none
RetryOrReply(seen, nx, answer) ==
    IF nx.continue
    THEN [seen EXCEPT !.best_model = nx.best,
                      !.pick = nx.best,
                      !.request_model = Substitute(@, nx.best),
                      !.attempt = @ + 1,
                      !.sent = @ + 1]
    ELSE [seen EXCEPT !.st = "replied",
                      !.best_model = nx.best,
                      !.pick = IF nx.asked THEN nx.best ELSE @,
                      !.reply = answer]

\* proxy.py:111-165  requests.post returns the response r
UpstreamResponds(r) ==
    /\ proxy.st = "sending"
    /\ LET b == proxy.best_model
           limited == is_rate_limited(r)
           rec == IF limited
                  THEN OnRateLimited(stats, b, now, proxy.attempt, proxy.max_retries)
                  ELSE OnForward(stats, b, r)
           nx == NextModel(rec, proxy.attempt, proxy.max_retries, b, now,
                           error_threshold)
           seen == Handled(proxy, "response", r, stats, rec)
           last == [seen EXCEPT !.sent_headers = IF nx.continue THEN @
                                                 ELSE ForwardLastHeaders(r.body)]
       IN  IF limited
           THEN /\ stats' = nx.stats
                /\ proxy' = RetryOrReply(last, nx, ForwardLast(r))
           ELSE /\ stats' = rec
                /\ \E h \in HeaderLists :
                      proxy' = [seen EXCEPT !.st = "replied", !.reply = Forward(r),
                                            !.response_headers = h,
                                            !.sent_headers = ForwardHeaders(h, r.body)]
    /\ UNCHANGED <<pool, error_threshold, now, trackerObs, clientVars, race>>

\* proxy.py:167-181  requests.post raises a RequestException
TransportFails ==
    /\ proxy.st = "sending"
    /\ LET b == proxy.best_model
           rec == OnTransportError(stats, b, now)
           nx == NextModel(rec, proxy.attempt, proxy.max_retries, b, now,
                           error_threshold)
           seen == Handled(proxy, "failure", NoResponse, stats, rec)
       IN  /\ stats' = nx.stats
           /\ proxy' = RetryOrReply(seen, nx, BadGateway)
    /\ UNCHANGED <<pool, error_threshold, now, trackerObs, clientVars, race>>

ProxyNext ==
    \/ \E inb \in Inbound : Receive(inb)
    \/ \E r \in Responses : UpstreamResponds(r)
    \/ TransportFails
    \/ Tick

SpecProxy == ProxyInit /\ [][ProxyNext]_vars

\* ------------- SpecRace: two threads inside ModelStats at the same time
\* ModelStats holds no lock: a thread can be suspended between two statements
\* of a method, and between the read and the write of "+= 1".

\* the model the racing calls are about
RaceModels == {"A"}

\* the calls a thread makes
RaceOps == [op : {"record_error", "record_success", "is_model_available"},
            m : RaceModels]

\* a call of get_best_model on the list [m]
ResetOps == [op : {"get_best_model"}, m : RaceModels]

\* a thread about to enter its method; ref is the record object it holds
NewThread(o) ==
    [op |-> o.op, m |-> o.m, at |-> "start", tmp |-> 0, ret |-> TRUE, ref |-> 0]

\* self.stats as the threads see it: heap holds the record objects ever
\* created, cur the object each key of the dict refers to
Deref(mem) == [m \in DOMAIN mem.cur |-> mem.heap[mem.cur[m]]]

\* models.py:21, 29  self.stats[model_id] = {...}: a new object under the key
Bind(mem, m) ==
    [heap |-> Append(mem.heap, NewRecord),
     cur |-> [x \in DOMAIN mem.cur \cup {m} |->
                 IF x = m THEN Len(mem.heap) + 1 ELSE mem.cur[x]]]

\* the KeyError of self.stats[model_id] when the key is gone
Fault(mem, th) == [mem |-> mem, th |-> [th EXCEPT !.at = "fault"]]

\* models.py:18-24  one statement of record_error: the membership test, the
\* record creation, the read and the write of errors += 1 on the object that
\* self.stats[model_id] returned, the timestamp
StepRecordError(mem, th, t) ==
    LET m == th.m
    IN  CASE th.at = "start" ->
               [mem |-> mem,
                th |-> [th EXCEPT !.at = IF m \notin DOMAIN mem.cur THEN "create"
                                         ELSE "load"]]
          [] th.at = "create" ->
               [mem |-> Bind(mem, m), th |-> [th EXCEPT !.at = "load"]]
          [] th.at = "load" ->
               IF m \notin DOMAIN mem.cur THEN Fault(mem, th)
               ELSE [mem |-> mem,
                     th |-> [th EXCEPT !.at = "store", !.ref = mem.cur[m],
                                       !.tmp = mem.heap[mem.cur[m]].errors]]
          [] th.at = "store" ->
               [mem |-> [mem EXCEPT !.heap[th.ref].errors = th.tmp + 1],
                th |-> [th EXCEPT !.at = "stamp"]]
          [] OTHER ->
               IF m \notin DOMAIN mem.cur THEN Fault(mem, th)
               ELSE [mem |-> [mem EXCEPT !.heap[mem.cur[m]].last_error = t],
                     th |-> [th EXCEPT !.at = "done"]]

\* models.py:26-31  one statement of record_success
StepRecordSuccess(mem, th) ==
    LET m == th.m
    IN  CASE th.at = "start" ->
               [mem |-> mem,
                th |-> [th EXCEPT !.at = IF m \notin DOMAIN mem.cur THEN "create"
                                         ELSE "load"]]
          [] th.at = "create" ->
               [mem |-> Bind(mem, m), th |-> [th EXCEPT !.at = "load"]]
          [] th.at = "load" ->
               IF m \notin DOMAIN mem.cur THEN Fault(mem, th)
               ELSE [mem |-> mem,
                     th |-> [th EXCEPT !.at = "store", !.ref = mem.cur[m],
                                       !.tmp = mem.heap[mem.cur[m]].successes]]
          [] OTHER ->
               [mem |-> [mem EXCEPT !.heap[th.ref].successes = th.tmp + 1],
                th |-> [th EXCEPT !.at = "done"]]

\* models.py:33-45  one statement of is_model_available: the membership test,
\* stats = self.stats[model_id], the decay condition, then the reset or the
\* comparison, both on the object held in stats
StepIsModelAvailable(mem, th, t, T) ==
    LET m == th.m
    IN  CASE th.at = "start" ->
               [mem |-> mem,
                th |-> IF m \notin DOMAIN mem.cur
                       THEN [th EXCEPT !.at = "done", !.ret = TRUE]
                       ELSE [th EXCEPT !.at = "fetch"]]
          [] th.at = "fetch" ->
               IF m \notin DOMAIN mem.cur THEN Fault(mem, th)
               ELSE [mem |-> mem, th |-> [th EXCEPT !.at = "decay", !.ref = mem.cur[m]]]
          [] th.at = "decay" ->
               [mem |-> mem,
                th |-> [th EXCEPT !.at = IF DecayElapsed(mem.heap[th.ref].last_error, t)
                                         THEN "reset" ELSE "compare"]]
          [] th.at = "reset" ->
               [mem |-> [mem EXCEPT !.heap[th.ref].errors = 0],
                th |-> [th EXCEPT !.at = "done", !.ret = TRUE]]
          [] OTHER ->
               [mem |-> mem,
                th |-> [th EXCEPT !.at = "done",
                                  !.ret = UnderThreshold(mem.heap[th.ref].errors, T)]]

\* models.py:47-69  one statement of get_best_model([m]): is_model_available
\* for the list comprehension, then either the full reset self.stats = {} or
\* the membership test and the read of success_rate
StepGetBestModel(mem, th, t, T) ==
    LET m == th.m
    IN  CASE th.at = "clear" ->
               [mem |-> [mem EXCEPT !.cur = [x \in {} |-> 0]],
                th |-> [th EXCEPT !.at = "done"]]
          [] th.at = "rate_test" ->
               [mem |-> mem,
                th |-> [th EXCEPT !.at = IF m \notin DOMAIN mem.cur THEN "done"
                                         ELSE "rate_load"]]
          [] th.at = "rate_load" ->
               IF m \notin DOMAIN mem.cur THEN Fault(mem, th)
               ELSE [mem |-> mem, th |-> [th EXCEPT !.at = "done"]]
          [] OTHER ->
               LET r == StepIsModelAvailable(mem, th, t, T)
               IN  IF r.th.at # "done" THEN r
                   ELSE [mem |-> r.mem,
                         th |-> [r.th EXCEPT !.at = IF r.th.ret THEN "rate_test"
                                                    ELSE "clear"]]

\* a tracker with no thread inside yet
RaceInit ==
    /\ pool = <<"A">>
    /\ stats = EmptyStats
    /\ error_threshold \in 1..MaxThreshold
    /\ now = StartTime
    /\ lastOp = NoOp
    /\ hist = [m \in Models |-> NoHist]
    /\ NoClient
    /\ proxy = NoProxy
    /\ race = [NoRace EXCEPT !.phase = "setup"]

\* calls made one after the other before the threads start
SetupError(m) == race.phase = "setup" /\ RecordError(m)
SetupSuccess(m) == race.phase = "setup" /\ RecordSuccess(m)
SetupTick == race.phase = "setup" /\ Tick

\* the dict and its record objects when the threads start
Load(st) ==
    LET n == Cardinality(DOMAIN st)
        f == CHOOSE g \in [DOMAIN st -> 1..n] :
                 \A x, y \in DOMAIN st : x # y => g[x] # g[y]
    IN  [heap |-> [i \in 1..n |-> st[CHOOSE x \in DOMAIN st : f[x] = i]], cur |-> f]

\* two threads call into the tracker at the same time
Fork(o1, o2) ==
    /\ race.phase = "setup"
    /\ race' = [phase |-> "running", base |-> stats,
                thr |-> <<NewThread(o1), NewThread(o2)>>,
                heap |-> Load(stats).heap, cur |-> Load(stats).cur, cut |-> {}]
    /\ UNCHANGED <<pool, stats, error_threshold, now, trackerObs, clientVars, proxy>>

\* the threads that are inside record_error / record_success, past the
\* membership test and not yet back, other than thread i
Midway(i) ==
    {j \in 1..2 : /\ j # i
                  /\ race.thr[j].op \in {"record_error", "record_success"}
                  /\ race.thr[j].at \notin {"start", "done", "fault"}}

\* thread i runs its next statement
Step(i) ==
    /\ race.phase = "running"
    /\ race.thr[i].at \notin {"done", "fault"}
    /\ LET th == race.thr[i]
           mem == [heap |-> race.heap, cur |-> race.cur]
           r == IF th.op = "record_error" THEN StepRecordError(mem, th, now)
                ELSE IF th.op = "record_success" THEN StepRecordSuccess(mem, th)
                ELSE IF th.op = "is_model_available"
                THEN StepIsModelAvailable(mem, th, now, error_threshold)
                ELSE StepGetBestModel(mem, th, now, error_threshold)
       IN  /\ stats' = Deref(r.mem)
           /\ race' = [race EXCEPT !.thr[i] = r.th,
                                   !.heap = r.mem.heap,
                                   !.cur = r.mem.cur,
                                   !.cut = IF th.at = "clear" THEN @ \cup Midway(i)
                                           ELSE @]
    /\ UNCHANGED <<pool, error_threshold, now, trackerObs, clientVars, proxy>>

RaceNext ==
    \/ \E m \in RaceModels : SetupError(m)
    \/ \E m \in RaceModels : SetupSuccess(m)
    \/ SetupTick
    \/ \E o1, o2 \in RaceOps \cup ResetOps : Fork(o1, o2)
    \/ \E i \in 1..2 : Step(i)

SpecRace == RaceInit /\ [][RaceNext]_vars

\* ------------------------------------------------- claims on ModelStats

\* what the claims call available: not ejected
Available(m) == ~Ejected(stats, m, now, error_threshold)

\* successCount / (successCount + errorCount) of the current record, 1/1 for
\* a model never seen or without observations
Score(m) ==
    IF SuccessesOf(stats, m) + ErrorsOf(stats, m) = 0 THEN <<1, 1>>
    ELSE <<SuccessesOf(stats, m), SuccessesOf(stats, m) + ErrorsOf(stats, m)>>

ScoreLess(a, b) == a[1] * b[2] < b[1] * a[2]

\* C4: for every threshold T >= 1, counting from no record and with no decay
\* reset: the is_model_available call made after exactly T record_error calls
\* returns false, the one made after T - 1 returns true.
C4_ThresholdCrossing ==
    (/\ lastOp.op = "is_model_available"
     /\ error_threshold >= 1
     /\ ~hist[lastOp.m].decayed)
    => /\ hist[lastOp.m].errCalls = error_threshold => ~lastOp.avail
       /\ hist[lastOp.m].errCalls = error_threshold - 1 => lastOp.avail

C4_Witness ==
    /\ lastOp.op = "is_model_available"
    /\ error_threshold = 2
    /\ ~hist[lastOp.m].decayed
    /\ hist[lastOp.m].errCalls = 2
    /\ ~lastOp.avail

\* C5: an is_model_available call made more than the decay window after the
\* last error of the model returns true, and from the decay reset on the
\* errors count from 0: the calls made after at most error_threshold - 1
\* further record_error calls return true.
C5_DecayResets ==
    lastOp.op = "is_model_available"
    => /\ WindowElapsed(stats, lastOp.m, now) => lastOp.avail
       /\ (/\ hist[lastOp.m].decayed
           /\ hist[lastOp.m].errCalls <= error_threshold - 1) => lastOp.avail

C5_Witness ==
    /\ lastOp.op = "is_model_available"
    /\ error_threshold = 2
    /\ hist[lastOp.m].decayed
    /\ hist[lastOp.m].errCalls = 1
    /\ ~WindowElapsed(stats, lastOp.m, now)
    /\ lastOp.avail

\* C6: get_best_model on an empty list returns no model; on a non-empty list
\* whose every model is ejected it drops every record and returns the first
\* element of the list.
C6_LockoutReset ==
    lastOp.op = "get_best_model"
    => /\ pool = <<>> => lastOp.best = NoModel
       /\ (pool # <<>> /\ lastOp.lockout)
            => (lastOp.best = pool[1] /\ stats = EmptyStats)

C6_Witness ==
    /\ lastOp.op = "get_best_model"
    /\ Len(pool) = 2
    /\ lastOp.lockout
    /\ lastOp.best = pool[1]
    /\ stats = EmptyStats

\* C7: when some candidate is available (not every candidate was ejected when
\* the call was made), get_best_model returns an available candidate whose
\* success rate no available candidate exceeds, and every available candidate
\* listed before it has a strictly smaller rate.
C7_BestIsFirstMax ==
    (/\ lastOp.op = "get_best_model"
     /\ pool # <<>>
     /\ ~lastOp.lockout)
    => \E k \in DOMAIN pool :
          /\ lastOp.best = pool[k]
          /\ Available(lastOp.best)
          /\ \A i \in DOMAIN pool :
                Available(pool[i])
                => /\ ~ScoreLess(Score(lastOp.best), Score(pool[i]))
                   /\ i < k => ScoreLess(Score(pool[i]), Score(lastOp.best))

C7_Witness ==
    /\ lastOp.op = "get_best_model"
    /\ Len(pool) = 3
    /\ \A i \in 1..3 : Available(pool[i])
    /\ lastOp.best = pool[3]
    /\ ScoreLess(Score(pool[1]), Score(pool[2]))

\* a list of one never-seen model u and one model s with 1 success / 0 errors
SeenUnseenPair(u, s) ==
    /\ Len(pool) = 2
    /\ Range(pool) = {u, s}
    /\ u \notin DOMAIN stats
    /\ s \in DOMAIN stats
    /\ stats[s].successes = 1
    /\ stats[s].errors = 0

\* C8 as stated: on such a list get_best_model returns the never-seen model,
\* in both orders.
C8_PrefersUnseen ==
    lastOp.op = "get_best_model"
    => \A u, s \in Models : SeenUnseenPair(u, s) => lastOp.best = u

\* C8 as amended: on such a list get_best_model returns the model listed
\* first when both are available, and the never-seen model when the other
\* one is unavailable.
C8_FirstOfTie ==
    lastOp.op = "get_best_model"
    => \A u, s \in Models :
          SeenUnseenPair(u, s)
          => lastOp.best = IF Available(s) THEN pool[1] ELSE u

C8_Witness ==
    /\ lastOp.op = "get_best_model"
    /\ \E u, s \in Models :
          /\ SeenUnseenPair(u, s)
          /\ Available(s)
          /\ pool = <<s, u>>
          /\ lastOp.best = s

\* a step of record_error or record_success: the statistics change, no time
\* passes and no query is made
RecordStep == stats' # stats /\ now' = now /\ lastOp' = NoOp

\* the record of m, or the record of a model never seen
RecordOf(st, m) == IF m \in DOMAIN st THEN st[m] ELSE NewRecord

\* C21: a step of record_error or record_success, on whatever model, leaves
\* every ejected model ejected, and a step that adds a success to a record
\* leaves its errors and its last_error as they were.
C21_SuccessNeverForgives ==
    [][RecordStep
       => \A m \in Models :
            /\ Ejected(stats, m, now, error_threshold)
                 => Ejected(stats', m, now', error_threshold)
            /\ SuccessesOf(stats', m) > SuccessesOf(stats, m)
                 => /\ ErrorsOf(stats', m) = ErrorsOf(stats, m)
                    /\ RecordOf(stats', m).last_error = RecordOf(stats, m).last_error]_vars

C21_Witness ==
    /\ error_threshold = 1
    /\ Ejected(stats, "A", now, error_threshold)
    /\ stats["A"].errors = 2
    /\ stats["A"].successes = 1
    /\ "B" \in DOMAIN stats
    /\ lastOp = NoOp

\* C22: a step of record_error or record_success changes the record of one
\* model only, so every other model is as available after it as before; and
\* is_model_available on a model without record returns true and leaves it
\* without record.
C22_RecordsIndependent ==
    [][/\ RecordStep
          => \E m \in Models :
                \A x \in Models \ {m} :
                   /\ (x \in DOMAIN stats') = (x \in DOMAIN stats)
                   /\ RecordOf(stats', x) = RecordOf(stats, x)
                   /\ is_model_available_ret(stats', x, now', error_threshold)
                        = is_model_available_ret(stats, x, now, error_threshold)
       /\ (lastOp'.op = "is_model_available" /\ lastOp'.m \notin DOMAIN stats)
          => /\ lastOp'.avail
             /\ lastOp'.m \notin DOMAIN stats']_vars

C22_Witness ==
    /\ error_threshold = 2
    /\ Ejected(stats, "A", now, error_threshold)
    /\ lastOp.op = "is_model_available"
    /\ lastOp.m = "B"
    /\ "B" \notin DOMAIN stats
    /\ lastOp.avail

\* C27: in every step of the tracker the errors of a model go down only in a
\* decay reset (is_model_available, alone or inside get_best_model, more than
\* the decay window after the model's last error: down to 0) or when
\* get_best_model drops every record.
C27_ErrorsOnlyResetDown ==
    [][\A m \in Models :
         ErrorsOf(stats', m) < ErrorsOf(stats, m)
         => \/ /\ lastOp'.op \in {"is_model_available", "get_best_model"}
               /\ WindowElapsed(stats, m, now)
               /\ m \in DOMAIN stats'
               /\ stats'[m].errors = 0
            \/ /\ lastOp'.op = "get_best_model"
               /\ lastOp'.lockout
               /\ stats' = EmptyStats]_vars

C27_Witness ==
    /\ lastOp.op = "is_model_available"
    /\ hist[lastOp.m].decayed
    /\ hist[lastOp.m].errCalls = 0
    /\ stats[lastOp.m].errors = 0
    /\ stats[lastOp.m].last_error # None

\* C28 as stated: every model on which an error or a success was ever
\* recorded has a record.
C28_RecordForEverObserved ==
    \A m \in Models : hist[m].ever => m \in DOMAIN stats

\* C28 as amended: the models on which an error or a success was recorded
\* since get_best_model last dropped the records are exactly the models that
\* have a record, one each, and that record holds at least one observation
\* unless a decay reset took its errors away.
C28_OneRecordPerObservedModel ==
    \A m \in Models :
       /\ hist[m].live = (m \in DOMAIN stats)
       /\ (hist[m].live /\ ~hist[m].decayed)
            => stats[m].errors + stats[m].successes >= 1

C28_Witness ==
    /\ hist["A"].live
    /\ hist["A"].decayed
    /\ "A" \in DOMAIN stats
    /\ hist["B"].live
    /\ stats["B"].successes = 1
    /\ stats["B"].errors = 0
    /\ lastOp.op = "get_best_model"

\* C29: on a non-empty list get_best_model returns a model of the list, and
\* is_model_available on that model, asked right after, returns true.
C29_BestIsListedAndAvailable ==
    (lastOp.op = "get_best_model" /\ pool # <<>>)
    => /\ lastOp.best \in Range(pool)
       /\ is_model_available_ret(stats, lastOp.best, now, error_threshold)

C29_Witness ==
    /\ lastOp.op = "get_best_model"
    /\ Len(pool) = 2
    /\ error_threshold = 1
    /\ Ejected(stats, pool[1], now, error_threshold)
    /\ lastOp.best = pool[2]
    /\ pool[2] \in DOMAIN stats

\* ------------------------------------------------- claims on the client

\* every call the remote API receives fails
AlwaysFails == \A m \in Range(pool) : upstream[m] = "fail"

\* the pool <<A, B>> where every call for A fails and every call for B succeeds
AFailsBSucceeds ==
    /\ pool = <<"A", "B">>
    /\ upstream["A"] = "fail"
    /\ upstream["B"] = "ok"

\* C1: a call under way ends: chat_completions_create returns or raises.
C1_Terminates ==
    (pc \in {"loop", "attempt"}) ~> (pc \in {"returned", "raised"})

\* C2: on the pool <<A, B>> where A always fails and B always succeeds a call
\* returns B's answer, and the loop attempts B only after its for loop on A
\* has ended.
C2_ReturnsB ==
    /\ (AFailsBSucceeds /\ pc = "loop")
          ~> (pc = "returned" /\ outcome.model = "B")
    /\ []((AFailsBSucceeds /\ calls = 1 /\ "B" \in trace.tried)
            => "A" \in trace.gone)

\* C3: when every call fails, the for loop on a model ends after exactly
\* max_retries + 1 attempts.
C3_AttemptsPerModel ==
    (AlwaysFails /\ trace.left # NoModel) => trace.leftAfter = max_retries + 1

\* C9: a call raises only when the pool is empty or the loop has attempted
\* every model of the pool during the call; on a non-empty pool it never
\* raises without having called func().
C9_FailsOnlyWhenPoolSpent ==
    pc = "raised"
    => /\ pool = <<>> \/ trace.tried = Range(pool)
       /\ pool # <<>> => trace.attempts = 1

\* C10: a call that raises after a failed attempt raises the exception of the
\* latest failed attempt, and nothing else.
C10_LastFailureSurfaced ==
    (pc = "raised" /\ trace.lastFailure # NoError)
    => /\ outcome.kind = "raised"
       /\ outcome.error = trace.lastFailure

C10_Witness ==
    /\ pc = "raised"
    /\ trace.failures = Errors
    /\ trace.lastFailure = "status"
    /\ outcome.error = "status"

\* C11: every attempt calls func() for the current model: the model the
\* upstream call is sent to (target) is the model the loop holds and records
\* the outcome against (model_id).
C11_AttemptTargetsCurrent ==
    pc = "attempt" => target = model_id

\* C12: at the start of a call (chat_completions_create has read the model,
\* the loop has not yet switched or attempted) the model the first upstream
\* call goes to is get_best_model's pick from the pool on the current
\* statistics.
C12_FirstIsBestPick ==
    (pc = "loop" /\ trace = NoTrace /\ target = best_model)
    => target = get_best_model(stats, pool, now, error_threshold).ret

\* ------------------------------------------------- claims on the proxy

\* what the claims call a rate-limited response
RateLimited(r) == r.status = 429 \/ (r.status >= 400 /\ HasRateText(r.body))

\* the exchange handled last failed: a rate-limited response or a transport
\* failure
LastFailed ==
    \/ proxy.got = "failure"
    \/ proxy.got = "response" /\ RateLimited(proxy.response)

\* the handler recorded exactly one error, on m, and no success
OneErrorOn(m) ==
    \A x \in Models : /\ proxy.dErr[x] = IF x = m THEN 1 ELSE 0
                      /\ proxy.dOk[x] = 0

\* the handler recorded exactly one success, on m, and no error
OneSuccessOn(m) ==
    \A x \in Models : /\ proxy.dOk[x] = IF x = m THEN 1 ELSE 0
                      /\ proxy.dErr[x] = 0

\* every permitted attempt of the request was made and failed
Exhausted ==
    /\ proxy.st = "replied"
    /\ proxy.sent >= 1
    /\ proxy.sent = Min(3, Len(pool))
    /\ LastFailed

\* C13: one inbound request causes at most min(3, pool size) upstream
\* requests, and an upstream request after the first is in flight only when
\* the exchange before it was rate-limited or failed at transport level.
C13_RetryCeiling ==
    /\ proxy.sent <= Min(3, Len(pool))
    /\ (proxy.st = "sending" /\ proxy.sent >= 2) => LastFailed

C13_Witness ==
    /\ Len(pool) = 4
    /\ proxy.st = "replied"
    /\ proxy.sent = 3
    /\ proxy.got = "response"
    /\ proxy.response.status = 500
    /\ RateLimited(proxy.response)

\* C14: after a rate-limited response or a transport failure, the final
\* permitted attempt included, the handler has recorded exactly one error, on
\* the model the request carried, and no success.
C14_FailureRecordsOneError ==
    LastFailed => OneErrorOn(proxy.sentTo)

C14_Witness ==
    /\ proxy.st = "replied"
    /\ proxy.sent = 2
    /\ proxy.sent = proxy.max_retries
    /\ proxy.got = "response"
    /\ proxy.response.status = 429
    /\ OneErrorOn(proxy.sentTo)

\* C15: when the list holds another model, the retry after a rate-limited
\* response carries a model other than the one that returned that response.
C15_RetryGoesElsewhere ==
    (/\ proxy.st = "sending"
     /\ proxy.sent >= 2
     /\ proxy.got = "response"
     /\ Len(pool) >= 2)
    => proxy.request_model # proxy.sentTo

\* C16: a response whose status is not 2xx and that is not rate-limited is
\* forwarded with its status and body, ends the request without retry, and
\* leaves the statistics as they were.
C16_OtherErrorForwarded ==
    (/\ proxy.got = "response"
     /\ ~(proxy.response.status \in 200..299)
     /\ ~RateLimited(proxy.response))
    => /\ proxy.st = "replied"
       /\ proxy.reply = proxy.response
       /\ proxy.same

C16_Witness ==
    /\ proxy.got = "response"
    /\ proxy.response = [status |-> 500, body |-> "invalid request"]
    /\ proxy.reply = proxy.response
    /\ proxy.sent = 2
    /\ DOMAIN stats # {}
    /\ proxy.same

\* C17 as stated: every response with a status in 200..299 records exactly
\* one success on the model the request carried.
C17_Every2xxRecorded ==
    (proxy.got = "response" /\ proxy.response.status \in 200..299)
    => OneSuccessOn(proxy.sentTo)

\* C17 as amended: a response with status 200 records exactly one success on
\* the model the request carried; a response with another 2xx status leaves
\* the statistics as they were.
C17_Only200Recorded ==
    (proxy.got = "response" /\ proxy.response.status \in 200..299)
    => IF proxy.response.status = 200
       THEN OneSuccessOn(proxy.sentTo)
       ELSE proxy.same

C17_Witness ==
    /\ proxy.got = "response"
    /\ proxy.response.status = 200
    /\ proxy.sent = 2
    /\ OneSuccessOn(proxy.sentTo)
    /\ proxy.reply = proxy.response

\* C18: the model an upstream request carries, first attempt or retry, is the
\* model get_best_model returned last; the model the inbound request named
\* is carried only when it is that model.
C18_UpstreamModelIsPick ==
    proxy.st = "sending"
    => /\ proxy.request_model = proxy.pick
       /\ proxy.request_model = proxy.best_model
       /\ proxy.request_model \in Range(pool)

C18_Witness ==
    /\ proxy.st = "sending"
    /\ proxy.sent = 2
    /\ proxy.requested = "B"
    /\ proxy.sentTo = "B"
    /\ proxy.request_model = "A"
    /\ proxy.pick = "A"

\* C19 as stated: when every permitted attempt failed, the caller receives
\* the status and body of the last response the remote API gave.
C19_LastResponseVerbatim ==
    Exhausted => proxy.reply = proxy.lastResponse

\* C19 as amended: when every permitted attempt failed and the final attempt
\* got a rate-limited response, the caller receives the status and body of
\* that response; when the final attempt failed at transport level, the
\* caller receives the proxy's own 502 Bad Gateway.
C19_LastAttemptDecides ==
    Exhausted => proxy.reply = IF proxy.got = "response"
                               THEN proxy.response ELSE BadGateway

C19_Witness ==
    /\ Exhausted
    /\ proxy.sent = 3
    /\ proxy.got = "response"
    /\ proxy.response = [status |-> 500, body |-> "Rate limit exceeded"]
    /\ proxy.reply = proxy.response

\* the handler answered with the response of the remote API on the path of
\* lines 154-165
ForwardedNormally ==
    /\ proxy.st = "replied"
    /\ proxy.got = "response"
    /\ ~RateLimited(proxy.response)

\* the positions of the content-length headers the caller receives
LengthHeaders == {j \in DOMAIN proxy.sent_headers :
                     Lower(proxy.sent_headers[j][1]) = "content-length"}

\* C25: a response forwarded on the normal path carries every upstream header
\* but transfer-encoding, connection, content-encoding and content-length
\* (whatever their case), none of these three first, and exactly one
\* content-length header, whose value is the byte length of the forwarded body
C25_HeadersForwarded ==
    ForwardedNormally
    => /\ \A i \in DOMAIN proxy.response_headers :
             Lower(proxy.response_headers[i][1])
                 \notin {"transfer-encoding", "connection", "content-encoding",
                         "content-length"}
             => \E j \in DOMAIN proxy.sent_headers :
                   proxy.sent_headers[j] = proxy.response_headers[i]
       /\ \A j \in DOMAIN proxy.sent_headers :
             Lower(proxy.sent_headers[j][1])
                 \notin {"transfer-encoding", "connection", "content-encoding"}
       /\ Cardinality(LengthHeaders) = 1
       /\ \A j \in LengthHeaders :
             proxy.sent_headers[j][2] = ToString(Len(proxy.reply.body))

C25_Witness ==
    /\ ForwardedNormally
    /\ proxy.response.status = 200
    /\ proxy.reply.body = "invalid request"
    /\ \E i \in DOMAIN proxy.response_headers :
          proxy.response_headers[i] = <<"Content-Length", "7">>
    /\ \E j \in DOMAIN proxy.sent_headers :
          proxy.sent_headers[j] = <<"X-Request-Id", "r1">>
    /\ \E j \in DOMAIN proxy.sent_headers :
          proxy.sent_headers[j] = <<"Content-Length", "15">>

\* ------------------------------------------- claims on concurrent callers

\* the statistics a call leaves when it runs alone
ApplyOp(st, o) ==
    IF o.op = "record_error" THEN record_error(st, o.m, now)
    ELSE IF o.op = "record_success" THEN record_success(st, o.m)
    ELSE is_model_available_stats(st, o.m, now)

\* both threads have returned
Joined ==
    /\ race.phase = "running"
    /\ \A i \in 1..2 : race.thr[i].at = "done" /\ race.thr[i].op # "get_best_model"

\* C20: whatever the interleaving of two concurrent calls of record_error,
\* record_success and is_model_available, the statistics they leave are
\* those of the two calls made one after the other, in one of the two orders.
C20_Serializable ==
    Joined
    => \/ stats = ApplyOp(ApplyOp(race.base, race.thr[1]), race.thr[2])
       \/ stats = ApplyOp(ApplyOp(race.base, race.thr[2]), race.thr[1])

\* what thread i's call has to leave in the record of its model
Reflected(i) ==
    LET th == race.thr[i]
    IN  /\ th.m \in DOMAIN stats
        /\ IF th.op = "record_error" THEN stats[th.m].errors >= 1
           ELSE stats[th.m].successes >= 1

\* C31: a record_error / record_success call that is under way when another
\* thread's get_best_model replaces the whole dict (the full reset) never
\* raises, and once it is back its model has a record that holds the
\* observation.
C31_RecordSurvivesReset ==
    \A i \in race.cut :
        /\ race.thr[i].at # "fault"
        /\ race.thr[i].at = "done" => Reflected(i)

C24_SuccessOnEffectiveModel ==
    (pc = "returned" /\ outcome.effective # outcome.model)
    => trace.wrote = {<<"success", outcome.effective, 1>>}

\* C26: func() is never called for a model that is_model_available holds
\* unavailable at that moment.
C26_NoAttemptOnUnavailable ==
    pc = "attempt" => is_model_available_ret(stats, target, now, error_threshold)

\* C30: after every call of func() exactly one counter was written, on the
\* model the loop held: one success when func() answered, and the call has
\* returned; one error when it raised.
C30_OneWritePerAttempt ==
    trace.attempts = 1
    => /\ trace.wrote = {<<IF pc = "returned" THEN "success" ELSE "error",
                           trace.current, 1>>}
       /\ pc = "returned" => /\ trace.current = model_id
                             /\ SuccessesOf(stats, model_id) >= 1

C30_Witness ==
    /\ pc = "returned"
    /\ trace.failures # {}
    /\ trace.wrote = {<<"success", model_id, 1>>}
    /\ stats[model_id].errors = 1
    /\ stats[model_id].successes = 1

====
